---- MODULE Spec2Model ----
(***************************************************************************)
(* Verification model of the face-matcher repository.                      *)
(*                                                                         *)
(* Six components are modelled, each as its own specification over its     *)
(* own record-valued variable (the fields carry the source's names):       *)
(*   uf    universalFetch            backend, part_000:185-329             *)
(*   be    POST /compare handler     backend, part_000:530-645             *)
(*         and its older form        backend, server.js:65-112             *)
(*   cam   AmplifyLivenessCamera     frontend component                    *)
(*   page  FaceMatcherPage           frontend component                    *)
(*   live  LivenessCamera            frontend component, part_003          *)
(*   aad   GET getCandidateDetails   backend, part_000:407-524             *)
(* A specification leaves the variables of the other components at their   *)
(* idle value.                                                             *)
(***************************************************************************)
EXTENDS Integers, Sequences, FiniteSets, TLC

VARIABLES uf, be, cam, page, live, aad

vars == <<uf, be, cam, page, live, aad>>

\* ---------------------------------------------------------------- bounds

\* Largest maxRetries argument explored for universalFetch (callers pass 1, 2, default 3).
MaxRetriesArg == 3

\* ------------------------------------------------------------ idle values

UfIdle == [pc |-> "idle"]
BeIdle == [pc |-> "idle"]
CamIdle == [pc |-> "idle"]
PageIdle == [pc |-> "idle"]
LiveIdle == [pc |-> "idle"]
AadIdle == [pc |-> "idle"]

\* ======================================================================
\* universalFetch(url, options, maxRetries)            part_000:185-329
\* ======================================================================

\* The three https.Agent configurations, in array order (part_000:187-210).
httpsAgents == <<1, 2, 3>>

\* Strategy 1: the original URL with each agent (part_000:234-240).
AgentStrategies == [i \in 1..Len(httpsAgents) |-> [kind |-> "agent", agent |-> httpsAgents[i]]]

\* Strategy 2: the resolved IP with each agent, only when DNS resolved and the
\* url starts with https:// (part_000:243-254).
IpStrategies(scheme, resolvedIP) ==
    IF resolvedIP /\ scheme = "https"
    THEN [i \in 1..Len(httpsAgents) |-> [kind |-> "ip", agent |-> httpsAgents[i]]]
    ELSE <<>>

\* Strategy 3: the http:// fallback, only for https urls (part_000:257-264).
HttpStrategies(scheme) ==
    IF scheme = "https" THEN <<[kind |-> "http", agent |-> 0]>> ELSE <<>>

\* Mutant: the HTTP fallback is pushed before the HTTPS strategies.
BuildStrategiesHttpFirst(scheme, resolvedIP) ==
    HttpStrategies(scheme) \o AgentStrategies \o IpStrategies(scheme, resolvedIP)

\* The strategies array as the pushes build it (part_000:231-264).
BuildStrategies(scheme, resolvedIP) ==
    AgentStrategies \o IpStrategies(scheme, resolvedIP) \o HttpStrategies(scheme)

\* What one fetch() of a strategy can do: resolve with a status or reject
\* (network error, TLS error, the 30 s abort).
RequestOutcomes == {"ok", "404", "403", "500", "throw"}

\* Mutant: only 200 and 404 end the call.
DefinitiveWithout403(outcome) == outcome \in {"ok", "404"}

\* response.ok, or the two statuses that are not retried (part_000:299-306).
Definitive(outcome) == outcome \in {"ok", "404", "403"}

UfInit ==
    /\ be = BeIdle /\ cam = CamIdle /\ page = PageIdle
    /\ live = LiveIdle /\ aad = AadIdle
    /\ uf \in [pc : {"dns"},
               scheme : {"https", "http"},
               maxRetries : 1..MaxRetriesArg,
               resolvedIP : {FALSE},
               dnsFailed : {FALSE},
               strategies : {<<>>},
               attempt : {0},
               idx : {1},
               lastError : {"none"},
               lastErrorRequest : {0},
               lastThrowRequest : {0},
               requests : {0},
               tried : {<<>>},
               result : {"none"}]

\* part_000:217-264: DNS pre-resolution (a rejection is caught and only
\* logged), then the strategies array is built.
UfResolve ==
    /\ uf.pc = "dns"
    /\ \E dns \in {"resolved", "empty", "rejected"} :
          LET ip == (dns = "resolved") IN
          uf' = [uf EXCEPT !.pc = "loop",
                           !.resolvedIP = ip,
                           !.dnsFailed = ~ip,
                           !.strategies = BuildStrategies(uf.scheme, ip)]
    /\ UNCHANGED <<be, cam, page, live, aad>>

\* Mutant: the outer loop starts over without counting the attempt.
UfAdvanceStuck(u) ==
    IF u.idx < Len(u.strategies)
    THEN [u EXCEPT !.idx = u.idx + 1]
    ELSE [u EXCEPT !.idx = 1, !.tried = <<>>]

\* Loop control of part_000:268-269: position after the strategy at idx of
\* attempt has been dealt with without returning.
UfAdvance(u) ==
    IF u.idx < Len(u.strategies)
    THEN [u EXCEPT !.idx = u.idx + 1]
    ELSE [u EXCEPT !.idx = 1, !.attempt = u.attempt + 1, !.tried = <<>>]

\* Mutant: the catch block keeps the first error.
catchFirstError(u) ==
    IF u.lastError # "none" THEN u
    ELSE [u EXCEPT !.lastError = "fetchError", !.lastErrorRequest = u.requests]

\* The catch block of the inner loop (part_000:309-313): lastError = error,
\* the error thrown by the request just sent (request number u.requests).
catchError(u) ==
    [u EXCEPT !.lastError = "fetchError", !.lastErrorRequest = u.requests]

\* part_000:270-318: one iteration of the inner loop: the request of the
\* current strategy, then return on ok/404/403, otherwise the next strategy.
UfRequest ==
    /\ uf.pc = "loop"
    /\ uf.attempt < uf.maxRetries
    /\ uf.idx <= Len(uf.strategies)
    /\ \E outcome \in RequestOutcomes :
          LET sent == [uf EXCEPT !.requests = uf.requests + 1,
                                 !.lastThrowRequest =
                                     IF outcome = "throw" THEN uf.requests + 1 ELSE @,
                                 !.tried = Append(uf.tried,
                                     [strategy |-> uf.strategies[uf.idx], outcome |-> outcome])]
          IN  uf' = IF outcome = "throw" THEN UfAdvance(catchError(sent))
                    ELSE IF Definitive(outcome)
                    THEN [sent EXCEPT !.pc = "returned", !.result = outcome]
                    ELSE UfAdvance(sent)
    /\ UNCHANGED <<be, cam, page, live, aad>>

\* part_000:328: the loops are exhausted: throw lastError or the generic error.
UfThrow ==
    /\ uf.pc = "loop"
    /\ uf.attempt >= uf.maxRetries
    /\ uf' = [uf EXCEPT !.pc = "threw",
                        !.result = IF uf.lastError # "none" THEN uf.lastError
                                   ELSE "All fetch strategies failed"]
    /\ UNCHANGED <<be, cam, page, live, aad>>

UfNext == UfResolve \/ UfRequest \/ UfThrow

SpecFetch == UfInit /\ [][UfNext]_vars

\* universalFetch under the scheduling of the JS event loop: a pending step
\* (DNS answer, request outcome or 30 s abort, the final throw) is taken.
SpecFetchFair == SpecFetch /\ WF_vars(UfNext)

UfDone == uf.pc \in {"returned", "threw"}

\* C6: universalFetch always terminates: it sends at most maxRetries x
\* (number of strategies) requests, the number of strategies being at most 7,
\* every request moves the loop position forward, and a call that has not yet
\* returned or thrown always has a next step; it ends by returning a response
\* or by throwing.
C6_BoundedRequests ==
    uf.pc # "dns" =>
      /\ Len(uf.strategies) <= 7
      /\ uf.requests <= uf.maxRetries * Len(uf.strategies)
      /\ uf.pc = "loop" => uf.requests = uf.attempt * Len(uf.strategies) + (uf.idx - 1)
      /\ uf.attempt <= uf.maxRetries
      /\ UfDone \/ ENABLED UfNext
      /\ uf.pc = "returned" => uf.result \in RequestOutcomes
      /\ uf.pc = "threw" => uf.result \in {"fetchError", "All fetch strategies failed"}

\* C6 witness: an https call with a resolved IP and maxRetries = 3 throws
\* after all 3 x 7 requests failed.
C6_Witness ==
    /\ uf.pc = "threw"
    /\ uf.maxRetries = 3
    /\ Len(uf.strategies) = 7
    /\ uf.requests = 21

\* C14: a request answered with OK, 404 or 403 is the last request of the
\* call: the call has returned with that answer, and no request follows it.
C14_ReturnsOnDefinitiveAnswer ==
    /\ [](\A i \in 1..Len(uf.tried) :
             uf.tried[i].outcome \in {"ok", "404", "403"} =>
                /\ i = Len(uf.tried)
                /\ uf.pc = "returned"
                /\ uf.result = uf.tried[i].outcome)
    /\ [][uf.pc = "returned" => uf'.requests = uf.requests]_vars

\* A 403 on the second strategy of the first attempt ended a call that had
\* more strategies and more attempts left.
C14_Witness ==
    /\ uf.pc = "returned"
    /\ uf.result = "403"
    /\ uf.attempt = 0
    /\ uf.idx = 2
    /\ uf.maxRetries = 3

\* C15: a call returns only OK, 403 or 404 answers; it throws only after
\* every request of every attempt failed, and then throws the error of the
\* most recent request that threw, or the generic error when none threw.
C15_ThrowsWhenNothingDefinitive ==
    /\ uf.pc = "returned" => uf.result \in {"ok", "403", "404"}
    /\ uf.pc = "threw" =>
          /\ uf.requests = uf.maxRetries * Len(uf.strategies)
          /\ IF uf.lastThrowRequest = 0
             THEN uf.result = "All fetch strategies failed"
             ELSE uf.result = "fetchError" /\ uf.lastErrorRequest = uf.lastThrowRequest

\* A call threw the error of a request that was followed by requests
\* answered with another status.
C15_Witness ==
    /\ uf.pc = "threw"
    /\ uf.result = "fetchError"
    /\ uf.lastThrowRequest > 1
    /\ uf.lastThrowRequest < uf.requests

\* The order of strategies the claim states, written out.
ExpectedOrder(scheme, dnsOK) ==
    <<[kind |-> "agent", agent |-> 1], [kind |-> "agent", agent |-> 2],
      [kind |-> "agent", agent |-> 3]>>
    \o (IF dnsOK /\ scheme = "https"
        THEN <<[kind |-> "ip", agent |-> 1], [kind |-> "ip", agent |-> 2],
               [kind |-> "ip", agent |-> 3]>>
        ELSE <<>>)
    \o (IF scheme = "https" THEN <<[kind |-> "http", agent |-> 0]>> ELSE <<>>)

\* C7: within an attempt the strategies are tried in the fixed order (HTTPS
\* agents, then direct-IP variants only with a resolved IP on an https url,
\* then the HTTP fallback only for https urls); a strategy is tried only after
\* every earlier one of the attempt threw or returned a status other than
\* ok/403/404; a failed DNS pre-resolution only removes the direct-IP
\* strategies and never makes the call throw before all requests failed.
C7_StrategyOrder ==
    uf.pc # "dns" =>
      LET expected == ExpectedOrder(uf.scheme, uf.resolvedIP) IN
      /\ Len(uf.tried) <= Len(expected)
      /\ \A i \in 1..Len(uf.tried) : uf.tried[i].strategy = expected[i]
      /\ \A i \in 1..(Len(uf.tried) - 1) : ~Definitive(uf.tried[i].outcome)
      /\ uf.pc = "loop" => \A i \in 1..Len(uf.tried) : ~Definitive(uf.tried[i].outcome)
      /\ uf.dnsFailed =>
            /\ \A i \in 1..Len(uf.strategies) : uf.strategies[i].kind # "ip"
            /\ Len(uf.strategies) >= 3
            /\ uf.pc = "threw" => uf.requests = uf.maxRetries * Len(uf.strategies)

\* C7 witness: second attempt of an https call with a resolved IP, in which
\* the six HTTPS strategies failed and the HTTP fallback answered.
C7_Witness ==
    /\ uf.pc = "returned"
    /\ uf.attempt = 1
    /\ Len(uf.tried) = 7
    /\ uf.tried[7].strategy.kind = "http"

\* ======================================================================
\* POST /compare                                        part_000:530-645
\* ======================================================================

\* Largest number of entries of FaceMatches in a Rekognition answer.
MaxFaceMatches == 2

\* SimilarityThreshold passed to CompareFaces, in percent (part_000:593).
SimilarityThreshold == 50

\* isMatch is "similarity > 80" (part_000:613).
IsMatchThreshold == 80

\* Similarities are fixed-point numbers, in thousandths of a percent.
\* Similarities Rekognition may report for a match: at or above the
\* threshold, around the isMatch limit and around a rounding step.
Similarities == {SimilarityThreshold * 1000, 79999, IsMatchThreshold * 1000, 80001, 80004,
                 80005, 99996, 100000}

\* fileFilter of the multer upload (part_000:171-178).
AllowedMimetypes == {"image/png", "image/jpg", "image/jpeg"}

fileFilter(mimetype) == mimetype \in AllowedMimetypes

\* Math.round(similarity * 100) / 100, in hundredths of a percent (part_000:614).
RoundSimilarity(similarity) == (similarity + 5) \div 10

\* Mutant: the limit itself counts as a match.
IsMatchAtLeast(similarity) == similarity >= IsMatchThreshold * 1000

\* part_000:613.
IsMatch(similarity) == similarity > IsMatchThreshold * 1000

\* The JSON body of the Rekognition callback without error (part_000:606-628);
\* FaceMatches is <<>> also when the answer carries no FaceMatches field.
MatchBody(FaceMatches) ==
    IF Len(FaceMatches) > 0
    THEN [matchFound |-> TRUE, success |-> TRUE,
          isMatch |-> IsMatch(FaceMatches[1]),
          similarity |-> RoundSimilarity(FaceMatches[1]),
          confidence |-> RoundSimilarity(FaceMatches[1])]
    ELSE [matchFound |-> FALSE, success |-> FALSE, isMatch |-> FALSE,
          similarity |-> 0, confidence |-> 0]

ErrorBody(message) == [error |-> message, success |-> FALSE]

\* Lists of at most MaxFaceMatches similarities.
FaceMatchLists == UNION {[1..n -> Similarities] : n \in 0..MaxFaceMatches}

\* A request as it arrives: aadhaarUrl is missing, a text field or an
\* uploaded file of an allowed type; image2 is missing or a file of a mimetype.
BeInit ==
    /\ uf = UfIdle /\ cam = CamIdle /\ page = PageIdle
    /\ live = LiveIdle /\ aad = AadIdle
    /\ be \in [pc : {"multer"},
               aadhaarUrl : {"missing", "field", "file"},
               image2 : {"missing", "image/jpeg", "image/png", "image/jpg", "image/gif"},
               liveFile : {FALSE},
               disk : {{}},
               download : {"none"},
               compareFacesCalls : {0},
               FaceMatches : {<<>>},
               rekognition : {"none"},
               responses : {<<>>}]

\* upload.fields (part_000:532-535) with the disk storage and fileFilter
\* (part_000:160-179): accepted files are written to the uploads directory.
BeMulter ==
    /\ be.pc = "multer"
    /\ LET accepted == be.image2 # "missing" /\ fileFilter(be.image2) IN
       be' = [be EXCEPT !.pc = "handler",
                        !.liveFile = accepted,
                        !.disk = (IF accepted THEN {"image2"} ELSE {})
                                 \cup (IF be.aadhaarUrl = "file" THEN {"aadhaarUrl"} ELSE {})]
    /\ UNCHANGED <<uf, cam, page, live, aad>>

\* part_000:542-559: both fields must be present.
BeValidate ==
    /\ be.pc = "handler"
    /\ be' = IF be.aadhaarUrl = "missing"
             THEN [be EXCEPT !.pc = "done",
                     !.responses = Append(be.responses,
                        [status |-> 400, body |-> ErrorBody("aadhaarUrl is required")])]
             ELSE IF ~be.liveFile
             THEN [be EXCEPT !.pc = "done",
                     !.responses = Append(be.responses,
                        [status |-> 400, body |-> ErrorBody("Live image (image2) is required")])]
             ELSE [be EXCEPT !.pc = "download"]
    /\ UNCHANGED <<uf, cam, page, live, aad>>

\* What the universalFetch call of the handler can yield: a response it
\* returns (ok, 403, 404) or an exception. An uploaded file object in place
\* of a url string makes url.startsWith throw (part_000:243).
DownloadOutcomes(aadhaarUrl) ==
    IF aadhaarUrl = "file" THEN {"throw"} ELSE {"ok", "403", "404", "throw"}

\* part_000:563-582: download of the reference photo; a non-ok response or
\* an exception unlinks the live file and answers 400.
BeDownload ==
    /\ be.pc = "download"
    /\ \E outcome \in DownloadOutcomes(be.aadhaarUrl) :
          be' = IF outcome = "ok"
                THEN [be EXCEPT !.pc = "buffers", !.download = outcome]
                ELSE [be EXCEPT !.pc = "done",
                        !.download = outcome,
                        !.disk = be.disk \ {"image2"},
                        !.responses = Append(be.responses,
                           [status |-> 400, body |-> ErrorBody("Failed to download Aadhaar image")])]
    /\ UNCHANGED <<uf, cam, page, live, aad>>

\* part_000:584-596: the two buffers are read, the live file is unlinked
\* and compareFaces is invoked; an exception while reading goes to the
\* catch block (part_000:631-643), which unlinks the file and answers 500.
BeBuffers ==
    /\ be.pc = "buffers"
    /\ \E threw \in BOOLEAN :
          be' = IF threw
                THEN [be EXCEPT !.pc = "done",
                        !.disk = be.disk \ {"image2"},
                        !.responses = Append(be.responses,
                           [status |-> 500, body |-> ErrorBody("Internal server error")])]
                ELSE [be EXCEPT !.pc = "callback",
                        !.disk = be.disk \ {"image2"},
                        !.compareFacesCalls = be.compareFacesCalls + 1]
    /\ UNCHANGED <<uf, cam, page, live, aad>>

\* Mutant: the error branch of the callback does not return and falls
\* through to the answer without match.
compareFacesCallbackNoReturn(b, err, matches) ==
    IF err
    THEN [b EXCEPT !.pc = "done", !.rekognition = "error",
            !.responses = b.responses \o
               <<[status |-> 500, body |-> ErrorBody("Rekognition error")],
                 [status |-> 200, body |-> MatchBody(<<>>)]>>]
    ELSE [b EXCEPT !.pc = "done", !.rekognition = "data",
            !.FaceMatches = matches,
            !.responses = Append(b.responses,
               [status |-> 200, body |-> MatchBody(matches)])]

\* part_000:596-629: the compareFaces callback (err, data).
compareFacesCallback(b, err, matches) ==
    IF err
    THEN [b EXCEPT !.pc = "done", !.rekognition = "error",
            !.responses = Append(b.responses,
               [status |-> 500, body |-> ErrorBody("Rekognition error")])]
    ELSE [b EXCEPT !.pc = "done", !.rekognition = "data",
            !.FaceMatches = matches,
            !.responses = Append(b.responses,
               [status |-> 200, body |-> MatchBody(matches)])]

\* Rekognition calls back with an error or with data.
BeCallback ==
    /\ be.pc = "callback"
    /\ \/ be' = compareFacesCallback(be, TRUE, <<>>)
       \/ \E matches \in FaceMatchLists :
             be' = compareFacesCallback(be, FALSE, matches)
    /\ UNCHANGED <<uf, cam, page, live, aad>>

BeNext == BeMulter \/ BeValidate \/ BeDownload \/ BeBuffers \/ BeCallback

SpecCompare == BeInit /\ [][BeNext]_vars

\* ----------------------------------------------------------------------
\* POST /compare of face-matcher-backend/server.js      server.js:56-112
\* ----------------------------------------------------------------------

\* The JSON bodies of server.js: errors carry only the message, answers of
\* the callback carry no confidence (server.js:92-108).
SrvErrorBody(message) == [error |-> message]

SrvMatchBody(FaceMatches) ==
    IF Len(FaceMatches) > 0
    THEN [matchFound |-> TRUE, success |-> TRUE,
          isMatch |-> IsMatch(FaceMatches[1]),
          similarity |-> RoundSimilarity(FaceMatches[1])]
    ELSE [matchFound |-> FALSE, success |-> FALSE, isMatch |-> FALSE,
          similarity |-> 0]

\* A request as it arrives: aadhaarUrl is a text field or missing, image2 is
\* missing or a file of a mimetype.
SrvInit ==
    /\ uf = UfIdle /\ cam = CamIdle /\ page = PageIdle
    /\ live = LiveIdle /\ aad = AadIdle
    /\ be \in [pc : {"multer"},
               aadhaarUrl : {"missing", "field"},
               image2 : {"missing", "image/jpeg", "image/png", "image/jpg", "image/gif"},
               liveFile : {FALSE},
               disk : {{}},
               download : {"none"},
               compareFacesCalls : {0},
               FaceMatches : {<<>>},
               rekognition : {"none"},
               responses : {<<>>}]

\* upload.single("image2") (server.js:45-60, 65): the fileFilter fails the
\* request for a file of another type, which Express answers with 500
\* without running the handler; accepted files are written to uploads.
SrvMulter ==
    /\ be.pc = "multer"
    /\ be' = IF be.image2 # "missing" /\ ~fileFilter(be.image2)
             THEN [be EXCEPT !.pc = "done",
                     !.responses = Append(be.responses,
                        [status |-> 500, body |-> SrvErrorBody("Only JPG, JPEG, PNG allowed")])]
             ELSE [be EXCEPT !.pc = "handler",
                     !.liveFile = (be.image2 # "missing"),
                     !.disk = IF be.image2 # "missing" THEN {"image2"} ELSE {}]
    /\ UNCHANGED <<uf, cam, page, live, aad>>

\* server.js:67-71.
SrvValidate ==
    /\ be.pc = "handler"
    /\ be' = IF be.aadhaarUrl = "missing"
             THEN [be EXCEPT !.pc = "done",
                     !.responses = Append(be.responses,
                        [status |-> 400, body |-> SrvErrorBody("aadhaarUrl is required")])]
             ELSE IF ~be.liveFile
             THEN [be EXCEPT !.pc = "done",
                     !.responses = Append(be.responses,
                        [status |-> 400, body |-> SrvErrorBody("Live image (image2) is required")])]
             ELSE [be EXCEPT !.pc = "download"]
    /\ UNCHANGED <<uf, cam, page, live, aad>>

\* What fetch(aadhaarUrl) of node-fetch can yield: a response of any status
\* or an exception.
SrvDownloadOutcomes == {"ok", "403", "404", "throw"}

\* server.js:73-75 and the catch block (server.js:109-111): a non-ok
\* response answers 400, an exception of fetch answers 500.
SrvDownload ==
    /\ be.pc = "download"
    /\ \E outcome \in SrvDownloadOutcomes :
          be' = IF outcome = "ok"
                THEN [be EXCEPT !.pc = "buffers", !.download = outcome]
                ELSE IF outcome = "throw"
                THEN [be EXCEPT !.pc = "done", !.download = outcome,
                        !.responses = Append(be.responses,
                           [status |-> 500, body |-> SrvErrorBody("Internal server error")])]
                ELSE [be EXCEPT !.pc = "done", !.download = outcome,
                        !.responses = Append(be.responses,
                           [status |-> 400, body |-> SrvErrorBody("Failed to download Aadhaar image")])]
    /\ UNCHANGED <<uf, cam, page, live, aad>>

\* server.js:77-89: the buffers are read, the live file is unlinked and
\* compareFaces is invoked; an exception while reading goes to the catch
\* block (server.js:109-111) before the unlink.
SrvBuffers ==
    /\ be.pc = "buffers"
    /\ \E threw \in BOOLEAN :
          be' = IF threw
                THEN [be EXCEPT !.pc = "done",
                        !.responses = Append(be.responses,
                           [status |-> 500, body |-> SrvErrorBody("Internal server error")])]
                ELSE [be EXCEPT !.pc = "callback",
                        !.disk = be.disk \ {"image2"},
                        !.compareFacesCalls = be.compareFacesCalls + 1]
    /\ UNCHANGED <<uf, cam, page, live, aad>>

\* server.js:89-108: the compareFaces callback.
SrvCallback ==
    /\ be.pc = "callback"
    /\ \/ be' = [be EXCEPT !.pc = "done", !.rekognition = "error",
                   !.responses = Append(be.responses,
                      [status |-> 500, body |-> SrvErrorBody("Rekognition error")])]
       \/ \E matches \in FaceMatchLists :
             be' = [be EXCEPT !.pc = "done", !.rekognition = "data",
                      !.FaceMatches = matches,
                      !.responses = Append(be.responses,
                         [status |-> 200, body |-> SrvMatchBody(matches)])]
    /\ UNCHANGED <<uf, cam, page, live, aad>>

SrvNext == SrvMulter \/ SrvValidate \/ SrvDownload \/ SrvBuffers \/ SrvCallback

SpecCompareServer == SrvInit /\ [][SrvNext]_vars

\* C5: in every successful (200) /compare response matchFound is true
\* exactly when Rekognition returned at least one face match, isMatch is true
\* exactly when matchFound is true and the first match's similarity is
\* strictly above 80, a response without face match has matchFound false,
\* isMatch false and similarity 0, and isMatch implies matchFound.
C5_MatchFlags ==
    \A i \in 1..Len(be.responses) :
       be.responses[i].status = 200 =>
          LET body == be.responses[i].body
              found == Len(be.FaceMatches) >= 1 IN
          /\ be.rekognition = "data"
          /\ body.matchFound = found
          /\ body.isMatch = (found /\ be.FaceMatches[1] > 80000)
          /\ ~found => (~body.matchFound /\ ~body.isMatch /\ body.similarity = 0)
          /\ body.isMatch => body.matchFound

\* C5 witness: a response for a first match of exactly 80%, which is found
\* but is no match.
C5_Witness ==
    /\ be.pc = "done"
    /\ Len(be.responses) = 1
    /\ be.responses[1].status = 200
    /\ Len(be.FaceMatches) = 2
    /\ be.FaceMatches[1] = 80000
    /\ be.responses[1].body.matchFound
    /\ ~be.responses[1].body.isMatch

\* C18: compareFaces is invoked only for a request with an aadhaarUrl, a
\* stored live image of an allowed type and an OK download of the reference
\* photo; a request that lacks a field, or whose download throws or is not
\* OK, is answered with 400 and never invokes compareFaces. (A file that
\* the upload filter refuses is left to the first part.)
C18_CompareFacesOnlyAfterDownload ==
    /\ be.compareFacesCalls > 0 =>
          /\ be.aadhaarUrl # "missing"
          /\ be.image2 \in {"image/png", "image/jpg", "image/jpeg"}
          /\ be.download = "ok"
    /\ (/\ be.pc = "done"
        /\ \/ be.aadhaarUrl = "missing" /\ be.image2 # "image/gif"
           \/ be.image2 = "missing"
           \/ be.download \in {"403", "404", "throw"}) =>
          /\ be.compareFacesCalls = 0
          /\ Len(be.responses) = 1
          /\ be.responses[1].status = 400

\* C19: when the handler has answered, the live image it stored in the
\* uploads directory has been unlinked.
C19_UploadedFileUnlinked ==
    be.pc = "done" => "image2" \notin be.disk

\* C20: a request is answered at most once, a finished request exactly
\* once, and an unfinished request can always go on towards its answer.
C20_ExactlyOneResponse ==
    /\ Len(be.responses) <= 1
    /\ be.pc = "done" => Len(be.responses) = 1
    /\ be.pc # "done" => ENABLED BeNext

\* Rekognition called back with an error and the request got its one 500.
C20_Witness ==
    /\ be.pc = "done"
    /\ be.rekognition = "error"
    /\ be.compareFacesCalls = 1
    /\ Len(be.responses) = 1
    /\ be.responses[1].status = 500

\* ======================================================================
\* AmplifyLivenessCamera        components/AmplifyLivenessCamera.js
\* ======================================================================
\* React state is held twice: the current value (sessionData, loading,
\* retryCount, ...) and the value of the last committed render
\* (rSessionData, rRetryCount), which is what the closures handed to the
\* detector and to setTimeout read.  Refs are read live.  A handler runs to
\* its next await as one step; the re-render it schedules (dirty) is flushed
\* before any timer of the component or any fetch response is handled, but
\* the detector may call back again before it.

\* Number of /liveness/create requests one component may send in a run.
MaxCreates == 4

\* Number of timers of the component that may be pending at the same time.
MaxTimers == 2

\* MAX_RETRIES (AmplifyLivenessCamera.js:31).
MAX_RETRIES == 3

\* minConfidence (AmplifyLivenessCamera.js:271), in percent.
minConfidence == 90

\* Image payloads a /liveness/result body can carry after resp.json():
\* nothing, a string (base64, possibly with a data-url prefix, n decoded
\* bytes), an object (n numeric keys, as a serialised byte array; a
\* serialised Buffer has none), an array of n bytes, or a number.
Absent == [kind |-> "absent", prefix |-> FALSE, valid |-> FALSE, n |-> 0]
ImagePayloads ==
    {Absent,
     [kind |-> "string", prefix |-> FALSE, valid |-> TRUE, n |-> 0],
     [kind |-> "string", prefix |-> TRUE, valid |-> TRUE, n |-> 0],
     [kind |-> "string", prefix |-> FALSE, valid |-> FALSE, n |-> 3],
     [kind |-> "string", prefix |-> TRUE, valid |-> TRUE, n |-> 3],
     [kind |-> "object", prefix |-> FALSE, valid |-> TRUE, n |-> 0],
     [kind |-> "object", prefix |-> FALSE, valid |-> TRUE, n |-> 2],
     [kind |-> "array", prefix |-> FALSE, valid |-> TRUE, n |-> 0],
     [kind |-> "array", prefix |-> FALSE, valid |-> TRUE, n |-> 2],
     [kind |-> "number", prefix |-> FALSE, valid |-> TRUE, n |-> 1]}

GoodPayload == [kind |-> "string", prefix |-> FALSE, valid |-> TRUE, n |-> 3]

\* JavaScript truthiness of a payload: absent and the empty string are falsy.
Truthy(img) ==
    /\ img.kind # "absent"
    /\ ~(img.kind = "string" /\ ~img.prefix /\ img.n = 0)

\* base64ToFile (AmplifyLivenessCamera.js:168-230): the size of the File it
\* returns, 0 standing for the null it returns after any error.
base64ToFile(imageData) ==
    IF ~Truthy(imageData) THEN 0
    ELSE IF imageData.kind = "object" THEN imageData.n
    ELSE IF imageData.kind = "string"
         THEN (IF imageData.n = 0 \/ ~imageData.valid THEN 0 ELSE imageData.n)
    ELSE IF imageData.kind = "array" THEN imageData.n
    ELSE 0

\* The first of ReferenceImage.Bytes, AuditImages[0].Bytes and
\* AuditImages[0].BoundingBox.Bytes that is truthy (js:282-292).
base64Bytes(data) ==
    IF Truthy(data.ReferenceImage) THEN data.ReferenceImage
    ELSE IF Truthy(data.AuditImage) THEN data.AuditImage
    ELSE IF Truthy(data.BoundingBox) THEN data.BoundingBox
    ELSE Absent

\* Answers to GET /liveness/result/<id>: an HTTP error, the 15 s abort, or a
\* JSON body.  Confidence is in tenths of a percent, 0 when the field is
\* missing (js:270).  The bodies cover each status, the confidences around
\* the limit, every payload as the reference image and every fallback.
ResultBody(Status, Confidence, ReferenceImage, AuditImage, BoundingBox) ==
    [http |-> "ok", Status |-> Status, Confidence |-> Confidence,
     ReferenceImage |-> ReferenceImage, AuditImage |-> AuditImage,
     BoundingBox |-> BoundingBox]

ResultResponses ==
    {[http |-> h, Status |-> "", Confidence |-> 0, ReferenceImage |-> Absent,
      AuditImage |-> Absent, BoundingBox |-> Absent] : h \in {"error", "timeout"}}
    \cup {ResultBody("", 900, GoodPayload, Absent, Absent),
          ResultBody("FAILED", 900, GoodPayload, Absent, Absent),
          ResultBody("SUCCEEDED", 0, GoodPayload, Absent, Absent),
          ResultBody("SUCCEEDED", 899, GoodPayload, Absent, Absent),
          ResultBody("SUCCEEDED", 1000, GoodPayload, Absent, Absent)}
    \cup {ResultBody("SUCCEEDED", 900, img, Absent, Absent) : img \in ImagePayloads}
    \cup {ResultBody("SUCCEEDED", 900, img, GoodPayload, Absent) :
             img \in {Absent, [kind |-> "object", prefix |-> FALSE, valid |-> TRUE, n |-> 0]}}
    \cup {ResultBody("SUCCEEDED", 900, Absent, Absent, GoodPayload)}

\* Answers to GET /liveness/create: the 15 s abort, an HTTP error, a body
\* that fails one of the checks of js:96-120, or a complete body.
CreateResponses == {"timeout", "httpError", "noSessionId", "noRegion", "noIdentity",
                    "badExpiration", "ok"}

CamStateFields(c) == <<c.sessionData, c.loading, c.retryCount, c.isCaptured, c.status>>

\* A handler's effect on the component: the re-render is scheduled when
\* state changed and the component is mounted.
CamCommit(old, new) ==
    [new EXCEPT !.dirty = (new.pc = "mounted")
                           /\ (old.dirty \/ CamStateFields(old) # CamStateFields(new))]

CamFreeTimers(c) == (1..MaxTimers) \ {t.id : t \in c.timers}
CamNewTimer(c) == CHOOSE i \in CamFreeTimers(c) : \A j \in CamFreeTimers(c) : i <= j

\* timeoutRef.current = setTimeout(fn, ...) with fn = createSession of the
\* closure with retryCount rc ("create"), or the resolve of the one-second
\* wait of handleError / handleUserCancel ("wait").
CamSetTimeout(c, kind, rc) ==
    [c EXCEPT !.timers = c.timers \cup {[id |-> CamNewTimer(c), kind |-> kind, rc |-> rc]},
              !.timeoutRef = CamNewTimer(c)]

\* clearTimeout(id).
CamClearTimeout(c, id) == [c EXCEPT !.timers = {t \in c.timers : t.id # id}]

\* hardReset (js:45-56). detectorKeyRef only keys the detector's wrapper and
\* is left out.
hardReset(c) ==
    IF c.captureCompleteRef THEN c
    ELSE [c EXCEPT !.sessionCreatedRef = FALSE,
                   !.sessionIdRef = 0,
                   !.handlingAnalysisRef = FALSE,
                   !.sessionData = 0,
                   !.loading = TRUE]

\* createSession up to its await (js:58-86), called from a closure whose
\* retryCount is rc.
createSessionSends(c, rc) ==
    ~c.sessionCreatedRef /\ ~c.captureCompleteRef /\ rc < MAX_RETRIES

createSession(c, rc) ==
    IF c.sessionCreatedRef THEN c
    ELSE IF c.captureCompleteRef THEN c
    ELSE IF rc >= MAX_RETRIES
         THEN [c EXCEPT !.status = "maxRetries", !.loading = FALSE]
    ELSE [c EXCEPT !.sessionCreatedRef = TRUE,
                   !.sessionIdRef = 0,
                   !.loading = TRUE,
                   !.status = "creating",
                   !.creates = c.creates \cup {[id |-> c.nextCreate, rc |-> rc]},
                   !.nextCreate = c.nextCreate + 1]

\* State after the constructor and the mount effect (js:16-29, 151-159):
\* isMountedRef set, hardReset done, the 100 ms init timer pending.
CamInit ==
    /\ uf = UfIdle /\ be = BeIdle /\ page = PageIdle
    /\ live = LiveIdle /\ aad = AadIdle
    /\ cam = [pc |-> "mounted",
              sessionData |-> 0, loading |-> TRUE, retryCount |-> 0,
              isCaptured |-> FALSE, status |-> "preparing",
              rSessionData |-> 0, rRetryCount |-> 0, detector |-> FALSE, dirty |-> FALSE,
              handlingAnalysisRef |-> FALSE, sessionCreatedRef |-> FALSE,
              sessionIdRef |-> 0, captureCompleteRef |-> FALSE,
              isMountedRef |-> TRUE, timeoutRef |-> 0,
              timers |-> {[id |-> 1, kind |-> "init", rc |-> 0]},
              creates |-> {}, nextCreate |-> 1,
              analyses |-> {}, delivered |-> {}]

\* The render of the component (js:422-576): the closures of the new render
\* replace the old ones and the detector is shown under the condition of
\* js:443-451.
CamRender ==
    /\ cam.pc = "mounted"
    /\ cam.dirty
    /\ cam' = [cam EXCEPT !.dirty = FALSE,
                          !.rSessionData = cam.sessionData,
                          !.rRetryCount = cam.retryCount,
                          !.detector = /\ ~cam.isCaptured
                                       /\ ~cam.loading
                                       /\ cam.sessionData # 0
                                       /\ cam.sessionIdRef = cam.sessionData
                                       /\ ~cam.captureCompleteRef]
    /\ UNCHANGED <<uf, be, page, live, aad>>

\* A timer fires: createSession (js:145, 159, 278, 299, 309, 346), or the
\* rest of handleError / handleUserCancel after the wait (js:367-369, 386-388).
CamTimerFire ==
    /\ ~cam.dirty
    /\ \E t \in cam.timers :
          LET c0 == [cam EXCEPT !.timers = cam.timers \ {t},
                                !.timeoutRef = IF cam.timeoutRef = t.id THEN 0
                                               ELSE cam.timeoutRef]
              calls == t.kind # "wait" \/ cam.isMountedRef
          IN  /\ (calls /\ createSessionSends(c0, t.rc)) => cam.nextCreate <= MaxCreates
              /\ cam' = CamCommit(cam, IF calls THEN createSession(c0, t.rc) ELSE c0)
    /\ UNCHANGED <<uf, be, page, live, aad>>

\* The rest of createSession after the fetch settled (js:88-148): the answer
\* to request r.  The session id of a complete body is new; it is numbered
\* like the request.
CamCreateSettled(c, r, resp) ==
    LET c0 == [c EXCEPT !.creates = c.creates \ {r}] IN
    IF resp = "ok"
    THEN IF ~c0.isMountedRef \/ c0.captureCompleteRef
         THEN [c0 EXCEPT !.loading = FALSE]
         ELSE [c0 EXCEPT !.sessionData = r.id,
                         !.status = "ready",
                         !.sessionIdRef = r.id,
                         !.loading = FALSE]
    ELSE LET c1 == [c0 EXCEPT !.status = IF resp = "timeout" THEN "timeoutRetry"
                                         ELSE "failedRetry",
                              !.sessionData = 0,
                              !.retryCount = c0.retryCount + 1]
             c2 == CamSetTimeout(hardReset(c1), "create", r.rc)
         IN  [c2 EXCEPT !.loading = FALSE]

CamCreateResponse ==
    /\ ~cam.dirty
    /\ \E r \in cam.creates : \E resp \in CreateResponses :
          /\ resp # "ok" => CamFreeTimers(cam) # {}
          /\ cam' = CamCommit(cam, CamCreateSettled(cam, r, resp))
    /\ UNCHANGED <<uf, be, page, live, aad>>

\* handleAnalysisComplete up to its await (js:232-256), in the closure of the
\* committed render.
handleAnalysisComplete(c) ==
    IF c.handlingAnalysisRef THEN c
    ELSE IF c.captureCompleteRef THEN c
    ELSE IF c.rSessionData = 0 \/ c.sessionIdRef # c.rSessionData
         THEN [c EXCEPT !.handlingAnalysisRef = FALSE]
    ELSE [c EXCEPT !.handlingAnalysisRef = TRUE,
                   !.status = "fetching",
                   !.loading = TRUE,
                   !.analyses = c.analyses \cup {[sid |-> c.rSessionData, rc |-> c.rRetryCount]}]

\* The detector calls onAnalysisComplete (js:564).
CamOnAnalysisComplete ==
    /\ cam.pc = "mounted"
    /\ cam.detector
    /\ cam' = CamCommit(cam, handleAnalysisComplete(cam))
    /\ UNCHANGED <<uf, be, page, live, aad>>

\* The failure exits of handleAnalysisComplete (js:273-280, 294-301, 305-311,
\* 335-346) followed by its finally block (js:347-350).
CamAnalysisFailed(c, a, status) ==
    LET c1 == [c EXCEPT !.status = status, !.handlingAnalysisRef = FALSE]
        c2 == CamSetTimeout(hardReset(c1), "create", a.rc)
    IN  [c2 EXCEPT !.loading = FALSE, !.handlingAnalysisRef = FALSE]

\* The conditions under which handleAnalysisComplete reaches
\* setLiveImage(file) (js:260-311).
CamResultAccepted(data) ==
    /\ data.http = "ok"
    /\ data.Status # ""
    /\ ~(data.Status # "SUCCEEDED" \/ data.Confidence < minConfidence * 10)
    /\ Truthy(base64Bytes(data))
    /\ base64ToFile(base64Bytes(data)) # 0

\* The rest of handleAnalysisComplete after the fetch settled (js:258-350):
\* the answer data to the result request a.  setLiveImage is the parent's
\* state setter and does not throw; each call is recorded in delivered: the
\* session of the request, the session the ref names when the answer
\* arrives, the Status and Confidence of the answer, and the size of the file
\* handed over.
CamAnalysisSettled(c, a, data) ==
    LET c0 == [c EXCEPT !.analyses = c.analyses \ {a}] IN
    IF data.http # "ok" \/ data.Status = ""
    THEN CamAnalysisFailed(c0, a, IF data.http = "timeout" THEN "timeout" ELSE "verifyError")
    ELSE IF ~CamResultAccepted(data)
    THEN CamAnalysisFailed(c0, a,
            IF data.Status # "SUCCEEDED" \/ data.Confidence < minConfidence * 10
            THEN "livenessFailed"
            ELSE IF ~Truthy(base64Bytes(data)) THEN "noImage" ELSE "processError")
    ELSE [c0 EXCEPT !.captureCompleteRef = TRUE,
                    !.delivered = c0.delivered \cup
                        {[sid |-> a.sid, active |-> c.sessionIdRef,
                          Status |-> data.Status, Confidence |-> data.Confidence,
                          file |-> base64ToFile(base64Bytes(data))]},
                    !.isCaptured = TRUE,
                    !.status = "captured",
                    !.sessionData = 0,
                    !.sessionCreatedRef = FALSE,
                    !.sessionIdRef = 0,
                    !.loading = FALSE,
                    !.handlingAnalysisRef = FALSE]

CamAnalysisResponse ==
    /\ ~cam.dirty
    /\ \E a \in cam.analyses : \E data \in ResultResponses :
          /\ ~(data.http = "ok" /\ data.Status # "" /\ CamResultAccepted(data))
                => CamFreeTimers(cam) # {}
          /\ cam' = CamCommit(cam, CamAnalysisSettled(cam, a, data))
    /\ UNCHANGED <<uf, be, page, live, aad>>

\* handleError and handleUserCancel up to their await (js:353-365, 372-384).
CamDetectorAborted(c, status) ==
    IF c.captureCompleteRef THEN c
    ELSE CamSetTimeout(hardReset([c EXCEPT !.status = status]), "wait", c.rRetryCount)

\* The detector calls onError (js:565).
CamOnError ==
    /\ cam.pc = "mounted"
    /\ cam.detector
    /\ CamFreeTimers(cam) # {}
    /\ cam' = CamCommit(cam, CamDetectorAborted(cam, "detectorError"))
    /\ UNCHANGED <<uf, be, page, live, aad>>

\* The detector calls onUserCancel (js:566).
CamOnUserCancel ==
    /\ cam.pc = "mounted"
    /\ cam.detector
    /\ CamFreeTimers(cam) # {}
    /\ cam' = CamCommit(cam, CamDetectorAborted(cam, "cancelled"))
    /\ UNCHANGED <<uf, be, page, live, aad>>

\* The parent removes the component, which it does once liveImage is set
\* (FaceMatcherPage.js:553-578): the cleanup of the mount effect (js:161-165)
\* with cleanup() (js:35-43).
CamUnmount ==
    /\ cam.pc = "mounted"
    /\ cam.delivered # {}
    /\ cam' = [cam EXCEPT !.pc = "unmounted",
                          !.isMountedRef = FALSE,
                          !.timers = {t \in cam.timers :
                                        t.kind # "init" /\ t.id # cam.timeoutRef},
                          !.timeoutRef = 0,
                          !.detector = FALSE,
                          !.dirty = FALSE]
    /\ UNCHANGED <<uf, be, page, live, aad>>

CamNext ==
    \/ CamRender
    \/ CamTimerFire
    \/ CamCreateResponse
    \/ CamOnAnalysisComplete
    \/ CamAnalysisResponse
    \/ CamOnError
    \/ CamOnUserCancel
    \/ CamUnmount

SpecCam == CamInit /\ [][CamNext]_vars

\* C1: setLiveImage is called only for an answer of /liveness/result that
\* reports Status SUCCEEDED with Confidence >= 90 and carries image bytes that
\* convert to a non-empty file, and only when that answer is for the session
\* that is the active one (sessionIdRef) when it arrives.
C1_DeliveryOnlyForActivePassedSession ==
    \A d \in cam.delivered :
       /\ d.Status = "SUCCEEDED"
       /\ d.Confidence >= 900
       /\ d.file > 0
       /\ d.active = d.sid

\* The part of C1 about the answer alone, without the session.
C1_DeliveryOnlyWhenPassed ==
    \A d \in cam.delivered :
       d.Status = "SUCCEEDED" /\ d.Confidence >= 900 /\ d.file > 0

\* C3: a mounted component has at most one /liveness/create request in
\* flight.
C3_SingleCreateInFlight ==
    cam.pc = "mounted" => Cardinality(cam.creates) <= 1

\* C11: once MAX_RETRIES /liveness/create attempts of a mounted component
\* have failed (retryCount counts them, js:140), no step sends another
\* /liveness/create request.
C11_NoCreateAfterMaxRetries ==
    [][cam.pc = "mounted" /\ cam.retryCount >= MAX_RETRIES
          => cam'.nextCreate = cam.nextCreate]_vars

\* ======================================================================
\* FaceMatcherPage                    components/FaceMatcherPage.js
\* ======================================================================
\* A handler runs to its next await as one step and ends with the render it
\* causes: the camera is shown or hidden and the auto-compare effect runs
\* when one of its dependencies changed.  AbortController.abort() rejects the
\* aborted fetch at once, so the catch block of the aborted call runs in the
\* same step, after the synchronous part of the aborting call.

\* Number of handleFetch calls that may be in progress at the same time.
MaxFetchCalls == 1

\* Number of live images the cameras of one page deliver in a run.
MaxCaptures == 3

\* Number of /compare requests one page sends in a run.
MaxCompares == 3

\* Number of result requests still in flight in cameras already removed.
MaxLateAnalyses == 1

\* maxAttempts of handleFetch (FaceMatcherPage.js:177).
maxAttempts == 5

NoController == [kind |-> "none", id |-> 0]

\* State after the first render (js:14-23): nothing fetched, no effect timer.
PageInit ==
    /\ uf = UfIdle /\ be = BeIdle /\ cam = CamIdle
    /\ live = LiveIdle /\ aad = AadIdle
    /\ page = [pc |-> "mounted",
               ppoNumber |-> "", aadhaarImage |-> 0, liveImage |-> 0, matchResult |-> 0,
               loading |-> FALSE, error |-> "",
               compareInProgressRef |-> FALSE, abortControllerRef |-> NoController,
               fetches |-> {}, compares |-> {}, timers |-> {},
               camMounted |-> FALSE, captures |-> 0, lateAnalyses |-> 0,
               compareRequests |-> 0, lastCompare |-> "none",
               sentThisRound |-> FALSE, order |-> "none"]

\* Mutant: the camera is shown whenever there is no live image.
cameraShownWithoutAadhaar(p) == p.liveImage = 0 /\ p.matchResult = 0

\* The condition under which the camera is rendered (js:553).
cameraShown(p) == p.aadhaarImage # 0 /\ p.liveImage = 0 /\ p.matchResult = 0

\* The condition of the auto-compare effect (js:368).
autoCompareDue(p) == p.aadhaarImage # 0 /\ p.liveImage # 0 /\ p.matchResult = 0

PageDeps(p) == <<p.aadhaarImage, p.liveImage, p.matchResult>>

\* The render after a handler: the camera follows its condition, and when a
\* dependency of the effect changed its cleanup clears the pending timer and
\* the effect sets a new 400 ms timer holding the handleCompare of this
\* render (js:367-375, 553-578).
PageCommit(old, new) ==
    LET shown == [new EXCEPT !.camMounted = cameraShown(new)] IN
    IF PageDeps(old) = PageDeps(new) THEN shown
    ELSE [shown EXCEPT !.timers =
            IF autoCompareDue(new)
            THEN {[aadhaarImage |-> new.aadhaarImage, liveImage |-> new.liveImage]}
            ELSE {}]

\* Mutant: a failed compare leaves compareInProgressRef set.
CompareFailedLocked(p, c) ==
    [p EXCEPT !.compares = p.compares \ {c},
              !.error = "Comparison failed",
              !.loading = FALSE,
              !.lastCompare = "failed"]

\* The catch and finally blocks of handleCompare (js:347-364) for the
\* request c.
CompareFailed(p, c) ==
    [p EXCEPT !.compares = p.compares \ {c},
              !.error = "Comparison failed",
              !.compareInProgressRef = FALSE,
              !.loading = FALSE,
              !.lastCompare = "failed"]

\* The catch block of fetchAadhaar (js:241-274) for the call f: another
\* attempt after the progressive delay, or the final error.
FetchAttemptFailed(p, f) ==
    IF f.attempts < maxAttempts
    THEN [p EXCEPT !.fetches = (p.fetches \ {f}) \cup {[f EXCEPT !.waiting = TRUE]},
                   !.error = "Establishing connection"]
    ELSE [p EXCEPT !.fetches = p.fetches \ {f},
                   !.error = "Failed to fetch Aadhaar details",
                   !.loading = FALSE]

\* The first lines of fetchWithTimeout (js:45-49): the controller of the
\* previous call is aborted, which fails that call if it is still pending,
\* and a new controller takes its place.
AbortPrevious(p) ==
    LET ref == p.abortControllerRef IN
    IF ref.kind = "compare" /\ \E c \in p.compares : c.n = ref.id
    THEN CompareFailed(p, CHOOSE c \in p.compares : c.n = ref.id)
    ELSE IF ref.kind = "fetch" /\ \E f \in p.fetches : f.id = ref.id /\ ~f.waiting
         THEN FetchAttemptFailed(p, CHOOSE f \in p.fetches : f.id = ref.id /\ ~f.waiting)
    ELSE p

\* fetchWithTimeout for the request named by controller: the new request is
\* sent by the caller (the operators below add it) and then the aborted
\* call's catch block runs.
fetchWithTimeout(p, controller) ==
    [AbortPrevious(p) EXCEPT !.abortControllerRef = controller]

\* The user types into the PPO input (AadhaarInput.js:11-16).
PageSetPpoNumber ==
    /\ \E v \in {"", "ppo"} :
          /\ v # page.ppoNumber
          /\ page' = PageCommit(page, [page EXCEPT !.ppoNumber = v])
    /\ UNCHANGED <<uf, be, cam, live, aad>>

PageFreeFetchIds(p) == (1..MaxFetchCalls) \ {f.id : f \in p.fetches}

\* handleFetch up to the first await of fetchAadhaar (js:151-194).
handleFetch(p) ==
    LET p0 == [p EXCEPT !.error = ""] IN
    IF p.ppoNumber = ""
    THEN [p0 EXCEPT !.error = "Please enter PPO Number"]
    ELSE LET id == CHOOSE i \in PageFreeFetchIds(p) : TRUE
             p1 == [p0 EXCEPT !.loading = TRUE,
                              !.fetches = p0.fetches \cup
                                 {[id |-> id, attempts |-> 1, waiting |-> FALSE]}]
         IN  fetchWithTimeout(p1, [kind |-> "fetch", id |-> id])

\* The user presses Get Photo (AadhaarInput.js:17).
PageHandleFetch ==
    /\ page.ppoNumber # "" => PageFreeFetchIds(page) # {}
    /\ page' = PageCommit(page, handleFetch(page))
    /\ UNCHANGED <<uf, be, cam, live, aad>>

\* The settled controller of a finished request is a no-op to abort.
PageSettle(p, kind, id) ==
    IF p.abortControllerRef = [kind |-> kind, id |-> id]
    THEN [p EXCEPT !.abortControllerRef = NoController]
    ELSE p

\* fetchAadhaar after its request settled (js:196-274): a body with a photo
\* url, or any failure (timeout, network error, non-2xx status, non-JSON
\* body, success false, no photo url).
PageAadhaarResponse ==
    /\ \E f \in page.fetches : \E photo \in BOOLEAN :
          /\ ~f.waiting
          /\ LET p0 == PageSettle(page, "fetch", f.id) IN
             page' = PageCommit(page,
                IF photo
                THEN [p0 EXCEPT !.fetches = p0.fetches \ {f},
                                !.aadhaarImage = 1,
                                !.liveImage = 0,
                                !.matchResult = 0,
                                !.loading = FALSE,
                                !.sentThisRound = FALSE,
                                !.order = IF @ = "none" THEN "fetched" ELSE @]
                ELSE FetchAttemptFailed(p0, f))
    /\ UNCHANGED <<uf, be, cam, live, aad>>

\* The delay of fetchAadhaar has passed (js:251-252): the next attempt.
PageFetchRetry ==
    /\ \E f \in page.fetches :
          /\ f.waiting
          /\ LET g == [f EXCEPT !.attempts = f.attempts + 1, !.waiting = FALSE]
                 p0 == fetchWithTimeout(page, [kind |-> "fetch", id |-> f.id])
             IN  page' = PageCommit(page,
                    [p0 EXCEPT !.fetches = (p0.fetches \ {f}) \cup {g}])
    /\ UNCHANGED <<uf, be, cam, live, aad>>

\* The camera shown by the page hands over a live image through its
\* setLiveImage prop (js:576, AmplifyLivenessCamera.js:316); the page then
\* removes the camera.  A result request the camera had started for an
\* earlier session may still be in flight at that moment (late is TRUE).
PageCameraCapture ==
    /\ page.camMounted
    /\ page.captures < MaxCaptures
    /\ \E late \in BOOLEAN :
          /\ late => page.lateAnalyses < MaxLateAnalyses
          /\ page' = PageCommit(page,
                [page EXCEPT !.captures = page.captures + 1,
                             !.liveImage = page.captures + 1,
                             !.lateAnalyses = IF late THEN @ + 1 ELSE @,
                             !.order = IF @ = "none" THEN @ ELSE "captured"])
    /\ UNCHANGED <<uf, be, cam, live, aad>>

\* A result request of a removed camera settles: nothing in the camera
\* stops its handleAnalysisComplete, which calls setLiveImage when the
\* result passes (AmplifyLivenessCamera.js:250-316).
PageLateAnalysis ==
    /\ page.lateAnalyses > 0
    /\ \E passed \in BOOLEAN :
          /\ passed => page.captures < MaxCaptures
          /\ page' = PageCommit(page,
                IF passed
                THEN [page EXCEPT !.lateAnalyses = @ - 1,
                                  !.captures = page.captures + 1,
                                  !.liveImage = page.captures + 1,
                                  !.order = IF @ = "none" THEN @ ELSE "captured"]
                ELSE [page EXCEPT !.lateAnalyses = @ - 1])
    /\ UNCHANGED <<uf, be, cam, live, aad>>

\* The request handleCompare sends (js:321-333), with the images of the
\* render that set the timer.
compareSend(p, t) ==
    LET n  == p.compareRequests + 1
        p1 == fetchWithTimeout([p EXCEPT !.loading = TRUE, !.error = ""],
                               [kind |-> "compare", id |-> n])
    IN  [p1 EXCEPT !.compareRequests = n,
                   !.compares = p1.compares \cup
                                   {[n |-> n,
                                     aadhaarImage |-> t.aadhaarImage,
                                     liveImage |-> t.liveImage]},
                   !.lastCompare = "inflight",
                   !.sentThisRound = TRUE]

\* Mutant: handleCompare without the guard on compareInProgressRef.
handleCompareUnguarded(p, t) ==
    IF t.aadhaarImage = 0 \/ t.liveImage = 0
    THEN [p EXCEPT !.compareInProgressRef = FALSE]
    ELSE compareSend([p EXCEPT !.compareInProgressRef = TRUE], t)

\* handleCompare up to its await (js:280-333).  The live image is the File
\* the camera made, so the format check of js:305-319 passes.
handleCompare(p, t) ==
    IF p.compareInProgressRef THEN p
    ELSE IF t.aadhaarImage = 0 \/ t.liveImage = 0
         THEN [p EXCEPT !.compareInProgressRef = FALSE]
    ELSE compareSend([p EXCEPT !.compareInProgressRef = TRUE], t)

\* A handleCompare call would send a request.
handleCompareSends(p, t) ==
    ~p.compareInProgressRef /\ t.aadhaarImage # 0 /\ t.liveImage # 0

\* The 400 ms timer of the auto-compare effect fires (js:369-371).
PageCompareTimer ==
    /\ \E t \in page.timers :
          /\ handleCompareSends(page, t) => page.compareRequests < MaxCompares
          /\ page' = PageCommit(page, handleCompare([page EXCEPT !.timers = {}], t))
    /\ UNCHANGED <<uf, be, cam, live, aad>>

\* Mutant: a successful compare releases compareInProgressRef.
CompareSucceededUnlocked(p, c) ==
    [p EXCEPT !.compares = p.compares \ {c},
              !.matchResult = 1,
              !.compareInProgressRef = FALSE,
              !.loading = FALSE,
              !.lastCompare = "succeeded"]

\* handleCompare after a response with a body (js:335-346, 362-364).
CompareSucceeded(p, c) ==
    [p EXCEPT !.compares = p.compares \ {c},
              !.matchResult = 1,
              !.compareInProgressRef = TRUE,
              !.loading = FALSE,
              !.lastCompare = "succeeded"]

\* The /compare request settles: a body, or any failure (timeout, network
\* error, non-2xx status, unreadable or empty body).
PageCompareResponse ==
    /\ \E c \in page.compares : \E ok \in BOOLEAN :
          LET p0 == PageSettle(page, "compare", c.n) IN
          page' = PageCommit(page,
                     IF ok THEN CompareSucceeded(p0, c) ELSE CompareFailed(p0, c))
    /\ UNCHANGED <<uf, be, cam, live, aad>>

PageNext ==
    \/ PageSetPpoNumber
    \/ PageHandleFetch
    \/ PageAadhaarResponse
    \/ PageFetchRetry
    \/ PageCameraCapture
    \/ PageLateAnalysis
    \/ PageCompareTimer
    \/ PageCompareResponse

SpecPage == PageInit /\ [][PageNext]_vars

\* C2: at most one /compare request is in flight, and while one is in
\* flight no step (in particular no handleCompare call) sends another.
C2_SingleCompareInFlight ==
    /\ [](Cardinality(page.compares) <= 1)
    /\ [][page.compares # {} => page'.compareRequests = page.compareRequests]_vars

\* handleCompare was called while a request was in flight and returned: the
\* live image changed under the request, the timer this set has fired, and
\* the request in flight is still the old one.
C2_Witness ==
    /\ page.timers = {}
    /\ autoCompareDue(page)
    /\ \E c \in page.compares : c.liveImage # page.liveImage

\* C4: the camera is mounted only while there is an Aadhaar image and
\* neither a live image nor a result; the live image becomes non-null only
\* by a camera capture; a compare request carries both images; and no
\* compare request is sent before a successful fetch followed by a capture.
C4_FetchCaptureCompare ==
    /\ [](/\ page.camMounted =>
                page.aadhaarImage # 0 /\ page.liveImage = 0 /\ page.matchResult = 0
          /\ \A c \in page.compares : c.aadhaarImage # 0 /\ c.liveImage # 0
          /\ page.compareRequests > 0 => page.order = "captured")
    /\ [][page'.liveImage # 0 /\ page'.liveImage # page.liveImage
             => page'.captures = page.captures + 1 /\ page.order # "none"]_vars

\* A compare request is in flight after a fetch and a capture.
C4_Witness == page.compares # {} /\ page.order = "captured"

\* C8: whenever the page holds both images and no result and the 400 ms
\* timer of that render has fired, a compare request was sent since the
\* live image of this round arrived.
C8_AutoCompareEveryRound ==
    autoCompareDue(page) /\ page.timers = {} => page.sentThisRound

\* The same before any compare has succeeded.
AutoCompareBeforeFirstSuccess ==
    autoCompareDue(page) /\ page.timers = {} /\ page.lastCompare # "succeeded"
        => page.sentThisRound

\* C9: after a successful compare compareInProgressRef is true and stays
\* true, and no further /compare request is sent.
C9_LockedAfterSuccess ==
    /\ [](page.lastCompare = "succeeded" => page.compareInProgressRef)
    /\ [][page.lastCompare = "succeeded"
             => /\ page'.lastCompare = "succeeded"
                /\ page'.compareRequests = page.compareRequests]_vars

\* After a success a later round had both images and its timer fired.
C9_Witness ==
    /\ page.lastCompare = "succeeded"
    /\ autoCompareDue(page)
    /\ page.timers = {}

\* The step in which a compare request fails.
CompareFailedStep == page.lastCompare = "inflight" /\ page'.lastCompare = "failed"

\* The step in which the effect timer fires and handleCompare runs.
CompareTimerStep ==
    /\ page.timers # {}
    /\ page'.timers = {}
    /\ PageDeps(page') = PageDeps(page)

MaxHandleFetchCalls == 2

\* The step and the cap of the progressive delay, in ms (js:247).
DelayStep == 1000

DelayCap == 5000

\* The ways an attempt fails (js:124-148, 205-239): the request is aborted
\* by its timeout or by the next fetchWithTimeout call, the network fails,
\* the status is not 2xx, the body is not JSON, success is false, or the
\* photo url is missing.
FailureKinds == {"timeout", "aborted", "network", "status404", "status500",
                 "nonJson", "successFalse", "noPhoto"}

\* The content of the PPO input when the button is pressed.
PpoInputs == {"", "  ", "12345"}

\* ppoNumber.trim() is empty (js:155).
IsBlank(ppoNumber) == ppoNumber \in {"", "  "}

Min(a, b) == IF a < b THEN a ELSE b

\* Mutant: the delay does not grow.
constantDelay(attempts) == DelayStep

\* Math.min(1000 * attempts, 5000) (js:247).
progressiveDelay(attempts) == Min(DelayStep * attempts, DelayCap)

\* The final error message chosen from err.message (js:256-271).
finalMessage(kind) ==
    IF kind = "timeout" \/ kind = "aborted" THEN "slow network"
    ELSE IF kind = "network" THEN "network connection issue"
    ELSE IF kind = "status404" THEN "PPO Number not found"
    ELSE IF kind = "status500" THEN "server error"
    ELSE "err.message"

HfInit ==
    /\ uf = UfIdle /\ be = BeIdle /\ cam = CamIdle
    /\ live = LiveIdle /\ aad = AadIdle
    /\ page = [pc |-> "ready", calls |-> 0,
               loading |-> FALSE, error |-> "", aadhaarImage |-> 0,
               attempts |-> 0, requests |-> 0, delays |-> <<>>,
               failure |-> "none", outcome |-> "none"]

\* handleFetch up to the await of the first request (js:151-194): attempts
\* is a variable of this call.
HfHandleFetch ==
    /\ page.pc = "ready"
    /\ page.calls < MaxHandleFetchCalls
    /\ \E ppoNumber \in PpoInputs :
          page' = IF IsBlank(ppoNumber)
                  THEN [page EXCEPT !.calls = @ + 1,
                                    !.error = "Please enter PPO Number",
                                    !.attempts = 0, !.requests = 0,
                                    !.delays = <<>>, !.failure = "none",
                                    !.outcome = "blank"]
                  ELSE [page EXCEPT !.calls = @ + 1,
                                    !.pc = "request",
                                    !.error = "",
                                    !.loading = TRUE,
                                    !.attempts = 1, !.requests = 1,
                                    !.delays = <<>>, !.failure = "none",
                                    !.outcome = "none"]
    /\ UNCHANGED <<uf, be, cam, live, aad>>

\* Mutant: one attempt more before giving up.
fetchAadhaarCatchOneMore(p, kind) ==
    IF p.attempts <= maxAttempts
    THEN [p EXCEPT !.pc = "delay",
                   !.failure = kind,
                   !.error = "Establishing connection",
                   !.delays = Append(@, progressiveDelay(p.attempts))]
    ELSE [p EXCEPT !.pc = "ready",
                   !.failure = kind,
                   !.error = finalMessage(kind),
                   !.loading = FALSE,
                   !.outcome = "failed"]

\* The catch block of fetchAadhaar (js:241-274): the timer of the
\* progressive delay is set, or the final error is shown.
fetchAadhaarCatch(p, kind) ==
    IF p.attempts < maxAttempts
    THEN [p EXCEPT !.pc = "delay",
                   !.failure = kind,
                   !.error = "Establishing connection",
                   !.delays = Append(@, progressiveDelay(p.attempts))]
    ELSE [p EXCEPT !.pc = "ready",
                   !.failure = kind,
                   !.error = finalMessage(kind),
                   !.loading = FALSE,
                   !.outcome = "failed"]

\* The request of an attempt settles (js:196-239): a body with a photo url
\* ends the call, anything else goes to the catch block.
HfResponse ==
    /\ page.pc = "request"
    /\ \/ page' = [page EXCEPT !.pc = "ready",
                               !.aadhaarImage = 1,
                               !.loading = FALSE,
                               !.outcome = "photo"]
       \/ \E kind \in FailureKinds : page' = fetchAadhaarCatch(page, kind)
    /\ UNCHANGED <<uf, be, cam, live, aad>>

\* The delay has passed (js:251-252): fetchAadhaar runs again, counts the
\* attempt and sends its request (js:180-194).
HfDelayElapsed ==
    /\ page.pc = "delay"
    /\ page' = [page EXCEPT !.pc = "request",
                            !.attempts = @ + 1,
                            !.requests = @ + 1]
    /\ UNCHANGED <<uf, be, cam, live, aad>>

HfNext == HfHandleFetch \/ HfResponse \/ HfDelayElapsed

SpecHandleFetch == HfInit /\ [][HfNext]_vars

\* C21: a handleFetch call sends at most five requests; a failed attempt
\* of any kind before the fifth is followed by the delay of a retry, the
\* fifth failure ends the call with a final message and loading cleared,
\* and a photo url ends the call without another request.
C21_AtMostFiveRequests ==
    /\ [](page.requests <= 5)
    /\ [][page.pc = "request" =>
            \/ /\ page'.outcome = "photo"
               /\ page'.pc = "ready"
               /\ page'.requests = page.requests
            \/ /\ page.requests < 5
               /\ page'.pc = "delay"
               /\ page'.failure \in FailureKinds
            \/ /\ page.requests = 5
               /\ page'.pc = "ready"
               /\ page'.outcome = "failed"
               /\ page'.failure \in FailureKinds
               /\ page'.error \notin {"", "Establishing connection"}
               /\ ~page'.loading
               /\ page'.requests = 5]_vars
    /\ [][page.pc = "delay" =>
            page'.pc = "request" /\ page'.requests = page.requests + 1]_vars

\* A call gave up after five requests, the last one answered with 404.
C21_Witness ==
    /\ page.outcome = "failed"
    /\ page.requests = 5
    /\ page.failure = "status404"
    /\ page.error = "PPO Number not found"
    /\ ~page.loading

MaxHistorySamples == 16

\* Number of face samples pushed in a run of the capture specification.
MaxLiveSamples == 6

\* Number of final captures that may be in flight at the same time.
MaxLiveCaptures == 1

\* MAX_HISTORY (part_003:47).
MAX_HISTORY == 15

\* CLOSE and OPEN of the blink detection (part_003:345-346), in hundredths.
CLOSE == 20
OPEN == 27

\* The video size asked of the Camera (part_003:460-461).
VideoWidth == 640
VideoHeight == 480

\* Results of FaceMesh for a frame: no face, or a face centred with open
\* eyes, centred with closed eyes under different light, on the right edge
\* of the box, centred with the eye-aspect-ratio exactly at OPEN, and far
\* from the centre with closed eyes under different light.
SceneNoFace ==
    [faces |-> 0, centerX |-> 0, centerY |-> 0, luminance |-> 0, avgEAR |-> 0]
SceneOpen ==
    [faces |-> 1, centerX |-> 320, centerY |-> 240, luminance |-> 500, avgEAR |-> 30]
SceneClosed ==
    [faces |-> 1, centerX |-> 320, centerY |-> 240, luminance |-> 520, avgEAR |-> 15]
SceneEdge ==
    [faces |-> 1, centerX |-> 448, centerY |-> 240, luminance |-> 500, avgEAR |-> 30]
SceneAtOpen ==
    [faces |-> 1, centerX |-> 320, centerY |-> 240, luminance |-> 500, avgEAR |-> 27]

SceneAway ==
    [faces |-> 1, centerX |-> 600, centerY |-> 100, luminance |-> 520, avgEAR |-> 15]

LiveScenes == {SceneOpen, SceneClosed, SceneEdge, SceneAtOpen}
\* The history specification pushes samples of faces outside the box, which
\* leave the rest of the component as it is.
HistoryScenes == {SceneEdge, SceneAway}

\* Mutant: the oldest entry is dropped one push too late.
PushSampleLate(history, sample) ==
    LET h == Append(history, sample) IN
    IF Len(h) > MAX_HISTORY + 1 THEN Tail(h) ELSE h

\* history.push(sample); if (history.length > MAX_HISTORY) history.shift()
\* (part_003:287-290, 293-296, 306-307).
PushSample(history, sample) ==
    LET h == Append(history, sample) IN
    IF Len(h) > MAX_HISTORY THEN Tail(h) ELSE h

\* centered (part_003:309-320): the face centre is strictly inside the
\* central box of 40% of the width and height.
centered(scene) ==
    LET boxW == (VideoWidth * 4) \div 10
        boxH == (VideoHeight * 4) \div 10
        boxLeft == (VideoWidth - boxW) \div 2
        boxTop == (VideoHeight - boxH) \div 2
    IN  /\ scene.centerX > boxLeft /\ scene.centerX < boxLeft + boxW
        /\ scene.centerY > boxTop /\ scene.centerY < boxTop + boxH

Abs(x) == IF x < 0 THEN 0 - x ELSE x

\* isTextureChangeDetected (part_003:95-106): at least five samples, two
\* neighbours of which differ by more than 0.01.
isTextureChangeDetected(history) ==
    /\ Len(history) >= 5
    /\ \E i \in 2..Len(history) : Abs(history[i] - history[i - 1]) > 10

\* State after the first render (part_003:23-47): nothing captured, the
\* camera started, no frame processed.
LiveInit ==
    /\ uf = UfIdle /\ be = BeIdle /\ cam = CamIdle /\ page = PageIdle /\ aad = AadIdle
    /\ live = [pc |-> "mounted",
               processingEnabledRef |-> TRUE,
               isCaptured |-> FALSE,
               livenessCheckDoneRef |-> FALSE,
               blinkStartedRef |-> FALSE,
               verifyingRef |-> FALSE,
               livenessVerifiedRef |-> FALSE,
               faceHistoryRef |-> <<>>, textureHistoryRef |-> <<>>, earHistoryRef |-> <<>>,
               faceArrived |-> <<>>, textureArrived |-> <<>>, earArrived |-> <<>>,
               inFlight |-> 0,
               lastVerification |-> [result |-> "none", hasMotion |-> FALSE],
               verifyStartedSinceOffBox |-> FALSE,
               capturing |-> {},
               delivered |-> {}]

\* The three pushes of onResults (part_003:287-307); the Arrived logs keep
\* every sample ever pushed.
onResultsPush(l, scene) ==
    [l EXCEPT !.faceHistoryRef =
                  PushSample(@, [centerX |-> scene.centerX, centerY |-> scene.centerY]),
              !.textureHistoryRef = PushSample(@, scene.luminance),
              !.earHistoryRef = PushSample(@, scene.avgEAR),
              !.faceArrived =
                  Append(@, [centerX |-> scene.centerX, centerY |-> scene.centerY]),
              !.textureArrived = Append(@, scene.luminance),
              !.earArrived = Append(@, scene.avgEAR)]

\* The blink detection of onResults up to the await of the final capture
\* (part_003:344-372).  drawOk: the canvas calls do not throw.
onResultsBlink(l, scene, drawOk) ==
    IF ~l.blinkStartedRef /\ scene.avgEAR < CLOSE
    THEN [l EXCEPT !.blinkStartedRef = TRUE]
    ELSE IF l.blinkStartedRef /\ scene.avgEAR > OPEN
    THEN LET l1 == [l EXCEPT !.blinkStartedRef = FALSE] IN
         IF ~l.livenessVerifiedRef THEN l1
         ELSE IF ~drawOk THEN l1
         ELSE [l1 EXCEPT !.capturing = @ \cup
                  {[sample |-> Len(l.earArrived), scene |-> scene,
                    livenessVerifiedRef |-> l.livenessVerifiedRef,
                    verifyStartedSinceOffBox |-> l.verifyStartedSinceOffBox]}]
    ELSE l

\* Mutant: a verification is started also while one is pending.
verificationDueUnguarded(l) == ~l.livenessVerifiedRef /\ ~l.livenessCheckDoneRef

\* The condition under which onResults starts a verification (part_003:334).
verificationDue(l) ==
    ~l.livenessVerifiedRef /\ ~l.verifyingRef /\ ~l.livenessCheckDoneRef

\* onResults (part_003:256-406) for one frame, in a closure whose
\* isCaptured is closureIsCaptured, up to its first await; with the
\* synchronous start of captureAndVerifyLiveness (part_003:170-204).
onResults(l, scene, closureIsCaptured, drawOk) ==
    IF ~l.processingEnabledRef \/ closureIsCaptured \/ l.livenessCheckDoneRef THEN l
    ELSE IF scene.faces = 0 THEN l
    ELSE LET l1 == onResultsPush(l, scene) IN
         IF ~centered(scene)
         THEN [l1 EXCEPT !.livenessVerifiedRef = FALSE,
                         !.verifyStartedSinceOffBox = FALSE]
         ELSE IF verificationDue(l1)
         THEN IF drawOk
              THEN [l1 EXCEPT !.verifyingRef = TRUE,
                              !.inFlight = @ + 1,
                              !.verifyStartedSinceOffBox = TRUE]
              ELSE [l1 EXCEPT !.verifyingRef = FALSE]
         ELSE onResultsBlink(l1, scene, drawOk)

\* FaceMesh delivers the result of a frame to onResults.  Every change of
\* onResults starts another Camera and FaceMesh without stopping the old
\* ones (part_003:409-474), so a frame may arrive in a closure of an earlier
\* render, where isCaptured is still false.
LiveFrame(scenes, maxSamples) ==
    \E scene \in scenes \cup {SceneNoFace} :
    \E closureIsCaptured \in {FALSE, live.isCaptured} :
    \E drawOk \in BOOLEAN :
       LET l == onResults(live, scene, closureIsCaptured, drawOk) IN
       /\ Len(l.earArrived) <= maxSamples
       /\ Cardinality(l.capturing) <= MaxLiveCaptures
       /\ live' = l

LiveHistoryFrame ==
    /\ LiveFrame(HistoryScenes, MaxHistorySamples)
    /\ UNCHANGED <<uf, be, cam, page, aad>>

LiveCameraFrame ==
    /\ LiveFrame(LiveScenes, MaxLiveSamples)
    /\ UNCHANGED <<uf, be, cam, page, aad>>

\* Floor of the square root.
ISqrt(n) == CHOOSE r \in 0..n : r * r <= n /\ (r + 1) * (r + 1) > n

\* The sum of the distances between neighbours of the face history.
RECURSIVE totalMovement(_)
totalMovement(history) ==
    IF Len(history) < 2 THEN 0
    ELSE LET prev == history[Len(history) - 1]
             curr == history[Len(history)]
             dx == curr.centerX - prev.centerX
             dy == curr.centerY - prev.centerY
         IN  totalMovement(SubSeq(history, 1, Len(history) - 1))
                + ISqrt(dx * dx + dy * dy)

\* isMotionDetected (part_003:76-92): at least five samples whose average
\* movement is above 3 pixels.  The distances of the scenes are whole
\* numbers.
isMotionDetected(history) ==
    /\ Len(history) >= 5
    /\ totalMovement(history) > 3 * (Len(history) - 1)

\* Mutant: liveness also needs face motion.
captureAndVerifyLivenessSettledWithMotion(l, outcome) ==
    LET hasMotion == isMotionDetected(l.faceHistoryRef)
        l1 == [l EXCEPT !.inFlight = @ - 1, !.verifyingRef = FALSE,
                        !.lastVerification =
                            [result |-> outcome,
                             hasMotion |-> outcome = "live" /\ hasMotion]]
    IN  IF outcome = "live" /\ hasMotion /\ isTextureChangeDetected(l.textureHistoryRef)
        THEN [l1 EXCEPT !.livenessVerifiedRef = TRUE]
        ELSE [l1 EXCEPT !.livenessCheckDoneRef = FALSE,
                        !.blinkStartedRef = FALSE,
                        !.livenessVerifiedRef = FALSE]

\* The rest of captureAndVerifyLiveness (part_003:204-249): the answer of
\* livenessCheckFrame says live or not, or one of the awaits throws; the
\* histories are read when the answer is there.  lastVerification keeps
\* the answer and the hasMotion computed from it.
captureAndVerifyLivenessSettled(l, outcome) ==
    LET hasMotion == isMotionDetected(l.faceHistoryRef)
        l1 == [l EXCEPT !.inFlight = @ - 1, !.verifyingRef = FALSE,
                        !.lastVerification =
                            [result |-> outcome,
                             hasMotion |-> outcome = "live" /\ hasMotion]]
    IN  IF outcome = "live" /\ isTextureChangeDetected(l.textureHistoryRef)
        THEN [l1 EXCEPT !.livenessVerifiedRef = TRUE]
        ELSE [l1 EXCEPT !.livenessCheckDoneRef = FALSE,
                        !.blinkStartedRef = FALSE,
                        !.livenessVerifiedRef = FALSE]

\* The answers of livenessCheckFrame: a body with isLive, live or success
\* truthy, a body without, or a rejection (server error, network).
VerifyOutcomes == {"live", "notLive", "throw"}

LiveVerifySettled ==
    /\ live.inFlight > 0
    /\ \E outcome \in VerifyOutcomes :
          live' = captureAndVerifyLivenessSettled(live, outcome)
    /\ UNCHANGED <<uf, be, cam, page, aad>>

\* The rest of the final capture (part_003:372-382): the blob is ready and
\* setLiveImage is called, then stopCamera disables the processing
\* (part_003:109-110); or reading the blob throws.
LiveCaptureSettled ==
    /\ \E c \in live.capturing : \E ok \in BOOLEAN :
          live' = IF ok
                  THEN [live EXCEPT !.capturing = @ \ {c},
                                    !.delivered = @ \cup {c},
                                    !.isCaptured = TRUE,
                                    !.livenessCheckDoneRef = TRUE,
                                    !.processingEnabledRef = FALSE]
                  ELSE [live EXCEPT !.capturing = @ \ {c}]
    /\ UNCHANGED <<uf, be, cam, page, aad>>

SpecHistory == LiveInit /\ [][LiveHistoryFrame]_vars

LiveNext ==
    \/ LiveCameraFrame
    \/ LiveVerifySettled
    \/ LiveCaptureSettled

SpecLive == LiveInit /\ [][LiveNext]_vars

\* The last n entries of a sequence.
LastN(seq, n) ==
    IF Len(seq) <= n THEN seq ELSE SubSeq(seq, Len(seq) - n + 1, Len(seq))

\* C12: each of the three sample histories holds at most MAX_HISTORY = 15
\* entries, and they are the most recent samples pushed, in arrival order.
C12_HistoriesBounded ==
    /\ Len(live.faceHistoryRef) <= 15
    /\ Len(live.textureHistoryRef) <= 15
    /\ Len(live.earHistoryRef) <= 15
    /\ live.faceHistoryRef = LastN(live.faceArrived, 15)
    /\ live.textureHistoryRef = LastN(live.textureArrived, 15)
    /\ live.earHistoryRef = LastN(live.earArrived, 15)

\* A sixteenth sample was pushed and the oldest one dropped.
C12_Witness ==
    /\ Len(live.earArrived) = 16
    /\ Len(live.earHistoryRef) = 15
    /\ live.earHistoryRef[1] = live.earArrived[2]

\* The face centre lies strictly inside the central 40% box of the
\* 640 x 480 video: 192 < x < 448 and 144 < y < 336.
InsideCentralBox(f) ==
    f.centerX > 192 /\ f.centerX < 448 /\ f.centerY > 144 /\ f.centerY < 336

\* The frame a capture was decided on had the face inside the box, the
\* eye-aspect-ratio above 0.27 after an earlier sample below 0.2, and
\* livenessVerifiedRef true.
CaptureOnCentredVerifiedBlink(c) ==
    /\ InsideCentralBox(c.scene)
    /\ c.scene.avgEAR > 27
    /\ \E i \in 1..(c.sample - 1) : live.earArrived[i] < 20
    /\ c.livenessVerifiedRef

\* A step that processes a frame with the face outside the box.
OffBoxFrameStep ==
    /\ Len(live'.faceArrived) = Len(live.faceArrived) + 1
    /\ ~InsideCentralBox(live'.faceArrived[Len(live'.faceArrived)])

\* The parts of C13 about the frame a capture is decided on and about the
\* clearing of livenessVerifiedRef.
CaptureFrameConditions ==
    /\ [](\A c \in live.capturing \cup live.delivered : CaptureOnCentredVerifiedBlink(c))
    /\ [][OffBoxFrameStep => ~live'.livenessVerifiedRef]_vars

\* C13: a photo is captured only on a frame with the face inside the box, a
\* blink just completed and livenessVerifiedRef true; a frame with the face
\* outside the box clears livenessVerifiedRef, and after such a frame a
\* capture needs a server verification started anew.
C13_CaptureNeedsFreshVerification ==
    /\ [](\A c \in live.capturing \cup live.delivered :
             /\ CaptureOnCentredVerifiedBlink(c)
             /\ c.verifyStartedSinceOffBox)
    /\ [][OffBoxFrameStep => ~live'.livenessVerifiedRef]_vars

\* A step in which a verification ends with the answer of the server.
VerificationSettledStep == live'.inFlight = live.inFlight - 1

\* At least five luminance samples, two neighbours of which differ by more
\* than 0.01 (10 thousandths).
TextureChanged(h) ==
    /\ Len(h) >= 5
    /\ \E i \in 1..(Len(h) - 1) :
          h[i + 1] - h[i] > 10 \/ h[i] - h[i + 1] > 10

\* C23: when a verification ends, liveness is verified exactly if the
\* server said live and the luminance history shows a texture change;
\* whether the face moved plays no part, and a server error leaves
\* liveness unverified.
C23_VerifiedIffServerLiveAndTexture ==
    [][VerificationSettledStep =>
          /\ live'.livenessVerifiedRef =
                (/\ live'.lastVerification.result = "live"
                 /\ TextureChanged(live.textureHistoryRef))
          /\ live'.lastVerification.result = "throw" => ~live'.livenessVerifiedRef]_vars

\* Liveness was verified on a live answer although the face had not moved.
C23_Witness ==
    /\ live.livenessVerifiedRef
    /\ live.lastVerification.result = "live"
    /\ ~live.lastVerification.hasMotion
    /\ Len(live.faceHistoryRef) >= 5

\* C24: at most one verification is in flight, verifyingRef is set exactly
\* while one is, and once none is pending and liveness is unverified, a
\* centred frame starts a new verification.
C24_SingleVerificationInFlight ==
    /\ live.inFlight <= 1
    /\ live.verifyingRef <=> live.inFlight = 1
    /\ (/\ live.inFlight = 0
        /\ live.processingEnabledRef
        /\ ~live.livenessCheckDoneRef
        /\ ~live.livenessVerifiedRef) =>
          onResults(live, SceneOpen, FALSE, TRUE).inFlight = 1

\* A verification is pending after an earlier one was rejected, and frames
\* arrived meanwhile.
C24_Witness ==
    /\ live.inFlight = 1
    /\ live.verifyingRef
    /\ live.lastVerification.result = "notLive"
    /\ Len(live.faceArrived) >= 4

\* ======================================================================
\* GET /api/aadhar/getCandidateDetails                part_000:407-524
\* ======================================================================

\* req.query.ppoNumber: absent, empty, only spaces, a number, or an array
\* (the parameter given twice), which has no trim().
PpoNumbers == {"missing", "empty", "spaces", "value", "array"}

\* The two upstream URLs in the order of urlVariations (part_000:429-432).
urlVariations == <<"https", "http">>

\* What universalFetch(externalUrl, ..., 2) gives back: a response that is
\* OK, 403 or 404, or an exception (part_000:185-329).
UpstreamResults == {"ok", "403", "404", "threw"}

\* The content-type header of an upstream response.
ContentTypes == {"none", "text/html", "application/json", "application/json; charset=utf-8"}

\* The body of an upstream response as resp.json() / resp.text() see it:
\* unreadable (the read rejects), the JSON value null, or a JSON object.
UpstreamBodies ==
    {[kind |-> "unreadable", success |-> FALSE, data |-> "none"],
     [kind |-> "null", success |-> FALSE, data |-> "none"],
     [kind |-> "object", success |-> FALSE, data |-> "none"],
     [kind |-> "object", success |-> TRUE, data |-> "none"],
     [kind |-> "object", success |-> TRUE, data |-> "noPhoto"],
     [kind |-> "object", success |-> TRUE, data |-> "photo"]}

\* Mutant: a content type counts as JSON only when it is exactly
\* application/json.
IsJsonExact(contentType) == contentType = "application/json"

\* contentType && contentType.includes("application/json") (part_000:464-468).
IsJson(contentType) ==
    contentType \in {"application/json", "application/json; charset=utf-8"}

AadInit ==
    /\ uf = UfIdle /\ be = BeIdle /\ cam = CamIdle /\ page = PageIdle /\ live = LiveIdle
    /\ aad \in [pc : {"start"},
                ppoNumber : PpoNumbers,
                idx : {1},
                lastError : {"null"},
                upstream : {<<>>},
                responses : {<<>>}]

\* res.status(status).json(body) and the return that follows it.
AadRespond(a, status, success, error) ==
    [a EXCEPT !.pc = "done",
              !.responses = Append(a.responses,
                  [status |-> status, success |-> success, error |-> error])]

\* The check of ppoNumber (part_000:411-423); trim() of an array throws
\* into the outer catch (part_000:514-523).
AadValidate ==
    /\ aad.pc = "start"
    /\ aad' = IF aad.ppoNumber \in {"missing", "empty", "spaces"}
              THEN AadRespond(aad, 400, FALSE, "ppoNumber is required")
              ELSE IF aad.ppoNumber = "array"
              THEN AadRespond(aad, 500, FALSE, "Internal server error")
              ELSE [aad EXCEPT !.pc = "loop"]
    /\ UNCHANGED <<uf, be, cam, page, live>>

\* continue: the next URL variation, with lastError set.
AadContinue(a, error) == [a EXCEPT !.idx = a.idx + 1, !.lastError = error]

\* Mutant: an upstream 404 moves on to the next variation.
AadHandleRetry404(a, result, contentType, body) ==
    IF result = "threw" THEN AadContinue(a, "fetchErr")
    ELSE IF result = "404" THEN AadContinue(a, "HTTP 404")
    ELSE IF result # "ok"
    THEN IF body.kind = "unreadable" THEN AadContinue(a, "fetchErr")
         ELSE AadContinue(a, "HTTP 403")
    ELSE IF ~IsJson(contentType) THEN AadContinue(a, "Invalid response format")
    ELSE IF body.kind \in {"unreadable", "null"} THEN AadContinue(a, "fetchErr")
    ELSE IF ~body.success THEN AadRespond(a, 400, FALSE, "Failed to fetch Aadhaar details")
    ELSE IF body.data # "photo" THEN AadRespond(a, 404, FALSE, "No Aadhaar photo found")
    ELSE AadRespond(a, 200, TRUE, "")

\* One iteration of the loop over urlVariations after universalFetch
\* settled (part_000:436-502).
AadHandle(a, result, contentType, body) ==
    IF result = "threw" THEN AadContinue(a, "fetchErr")
    ELSE IF result = "404" THEN AadRespond(a, 404, FALSE, "PPO Number not found")
    ELSE IF result # "ok"
    THEN IF body.kind = "unreadable" THEN AadContinue(a, "fetchErr")
         ELSE AadContinue(a, "HTTP 403")
    ELSE IF ~IsJson(contentType) THEN AadContinue(a, "Invalid response format")
    ELSE IF body.kind \in {"unreadable", "null"} THEN AadContinue(a, "fetchErr")
    ELSE IF ~body.success THEN AadRespond(a, 400, FALSE, "Failed to fetch Aadhaar details")
    ELSE IF body.data # "photo" THEN AadRespond(a, 404, FALSE, "No Aadhaar photo found")
    ELSE AadRespond(a, 200, TRUE, "")

AadVariation ==
    /\ aad.pc = "loop"
    /\ aad.idx <= Len(urlVariations)
    /\ \E result \in UpstreamResults : \E contentType \in ContentTypes :
       \E body \in UpstreamBodies :
          LET called == [aad EXCEPT !.upstream = Append(aad.upstream,
                            [url |-> urlVariations[aad.idx], result |-> result,
                             contentType |-> contentType, body |-> body])]
          IN  aad' = AadHandle(called, result, contentType, body)
    /\ UNCHANGED <<uf, be, cam, page, live>>

\* After the loop (part_000:504-512): 502.
AadExhausted ==
    /\ aad.pc = "loop"
    /\ aad.idx > Len(urlVariations)
    /\ aad' = AadRespond(aad, 502, FALSE, "Unable to connect to Aadhaar service")
    /\ UNCHANGED <<uf, be, cam, page, live>>

AadNext == AadValidate \/ AadVariation \/ AadExhausted

SpecAadhaar == AadInit /\ [][AadNext]_vars

\* An upstream answer that is OK and carries a JSON object.
JsonObjectAnswer(c) ==
    /\ c.result = "ok"
    /\ c.contentType \in {"application/json", "application/json; charset=utf-8"}
    /\ c.body.kind = "object"

\* The ways a URL variation fails without a definitive answer: the iteration
\* threw (universalFetch, reading the body, or a null body), the status was
\* non-OK other than 404, or the body was not JSON.
VariationFailed(c) ==
    \/ c.result = "threw"
    \/ c.result = "403"
    \/ c.result = "ok" /\ ~JsonObjectAnswer(c)

\* C16: the https URL is tried first and the http URL only after the https
\* variation failed by throwing, by a non-OK status other than 404 or by a
\* non-JSON body; 502 is answered only after both variations failed so.
C16_HttpsThenHttp ==
    /\ Len(aad.upstream) <= 2
    /\ Len(aad.upstream) >= 1 => aad.upstream[1].url = "https"
    /\ Len(aad.upstream) = 2 =>
          aad.upstream[2].url = "http" /\ VariationFailed(aad.upstream[1])
    /\ \A i \in 1..Len(aad.responses) :
          aad.responses[i].status = 502 =>
             /\ Len(aad.upstream) = 2
             /\ VariationFailed(aad.upstream[1])
             /\ VariationFailed(aad.upstream[2])

\* 502 after https answered 403 and http answered HTML.
C16_Witness ==
    /\ aad.pc = "done"
    /\ aad.responses[1].status = 502
    /\ aad.upstream[1].result = "403"
    /\ aad.upstream[2].contentType = "text/html"
    /\ aad.upstream[2].result = "ok"

\* The answer a definitive upstream answer leads to.
DefinitiveStatus(c) ==
    IF c.result = "404" THEN 404
    ELSE IF ~c.body.success THEN 400
    ELSE IF c.body.data # "photo" THEN 404
    ELSE 200

\* C17: an upstream 404 or an upstream JSON object is the last upstream
\* call of the request and is answered with 404, 400 (success false), 404
\* (no photo url) or 200 with success true; a missing or blank ppoNumber is
\* answered with 400 without any upstream call.
C17_DefinitiveAnswerEndsRequest ==
    /\ \A i \in 1..Len(aad.upstream) :
          LET c == aad.upstream[i] IN
          (c.result = "404" \/ JsonObjectAnswer(c)) =>
             /\ i = Len(aad.upstream)
             /\ aad.pc = "done"
             /\ Len(aad.responses) = 1
             /\ aad.responses[1].status = DefinitiveStatus(c)
             /\ aad.responses[1].success = (DefinitiveStatus(c) = 200)
    /\ aad.ppoNumber \in {"missing", "empty", "spaces"} =>
          /\ Len(aad.upstream) = 0
          /\ aad.pc = "done" => Len(aad.responses) = 1 /\ aad.responses[1].status = 400

\* The https variation answered a JSON object with a photo url under a
\* content type with a charset, and the request ended with 200.
C17_Witness ==
    /\ aad.pc = "done"
    /\ Len(aad.upstream) = 1
    /\ aad.upstream[1].contentType = "application/json; charset=utf-8"
    /\ aad.upstream[1].body.data = "photo"
    /\ aad.upstream[1].result = "ok"
    /\ aad.responses[1].status = 200

====
